---- MODULE Spec2Model ----
(***************************************************************************)
(* Model of src/repr.rs of thin_trait_object: the generator of the         *)
(* representation struct (generate_repr, generate_vtable_and_thunks,       *)
(* to_nth_thunk_arg, nth_arg, repr_name_from_trait_name) and the run-time  *)
(* behaviour of the items it emits (the static vtable, the constructor,    *)
(* the destructor and the method thunks).                                  *)
(*                                                                         *)
(* Identifiers are strings, format_ident! is string concatenation.         *)
(* Option<T> is a sequence of length at most one: <<>> is None, <<x>> is   *)
(* Some(x).  A TokenStream is modelled by the structure of the items it    *)
(* holds; a repetition #(...)* is the sequence of its expansions.          *)
(***************************************************************************)
EXTENDS Naturals, Sequences, FiniteSets, TLC

VARIABLES
    stash,          \* StageStash: trait_name, vtable_name, repr_name, vtable_items
    inline_vtable,  \* configuration switch of generate_repr
    path_to_box,    \* configured boxed-allocation abstraction
    drop_abi,       \* Option<Abi> of the destructor
    pc,             \* "start" before generate_repr has run, "generated" after
    repr,           \* the items generate_repr returned (<<>> before it ran)
    statics,        \* payload type -> the promoted __THINTRAITOBJECTMACRO_VTABLE
    heap,           \* the allocations made so far, in order
    handles,        \* the handles the constructor returned, in order
    creates,        \* number of constructor invocations
    lastCall        \* the method call the last thunk invocation forwarded

vars == <<stash, inline_vtable, path_to_box, drop_abi, pc, repr, statics,
          heap, handles, creates, lastCall>>

genVars == <<stash, inline_vtable, path_to_box, drop_abi, pc, repr, statics>>

(***************************************************************************)
(* Bounds of the model.                                                    *)
(***************************************************************************)
MaxMethods == 2
MaxParams == 2
MaxHandles == 2

(***************************************************************************)
(* The inputs: interface descriptions and configurations.                  *)
(***************************************************************************)
MethodNames == {"poke", "prod", "drop"}

TraitName == "Animal"

VtableName == "AnimalVtable"

PayloadTypes == {"Cat", "Dog"}

BoxPaths == {"alloc::boxed::Box", "std::boxed::Box"}

Abis == {<<>>, <<"C">>}

OpaquePtr == "*mut ::core::ffi::c_void"

Generic0 == "__ThinTraitObjectMacro_ReprGeneric0"

\* VtableFnArg::Receiver and VtableFnArg::Normal(BareFnArg).
Receiver == [kind |-> "Receiver", name |-> <<>>, ty |-> "&self"]

NormalArgs ==
    { [kind |-> "Normal", name |-> <<>>, ty |-> "u8"],
      [kind |-> "Normal", name |-> <<"count">>, ty |-> "i32"] }

SeqsUpTo(S, n) == UNION { [1..k -> S] : k \in 0..n }

IsInjective(s) == \A i, j \in DOMAIN s : s[i] = s[j] => i = j

OutputOf(name) == IF name = "prod" THEN "bool" ELSE "()"

VtableItemOf(name, params) ==
    [name |-> name, inputs |-> <<Receiver>> \o params,
     output |-> OutputOf(name), unsafety |-> FALSE]

\* Ordered method lists of a trait: method names are pairwise distinct.
Interfaces ==
    { [i \in DOMAIN names |-> VtableItemOf(names[i], params[i])] :
        <<names, params>> \in
            { np \in SeqsUpTo(MethodNames, MaxMethods)
                       \X SeqsUpTo(SeqsUpTo(NormalArgs, MaxParams), MaxMethods) :
                /\ Len(np[1]) = Len(np[2])
                /\ IsInjective(np[1]) } }

(***************************************************************************)
(* crate::vtable (not part of src/): what repr.rs relies on.               *)
(***************************************************************************)
\* VtableItem::make_raw: the receiver becomes an opaque pointer.
make_raw(entry) ==
    [entry EXCEPT !.inputs =
        [i \in DOMAIN entry.inputs |->
            IF entry.inputs[i].kind = "Receiver"
            THEN [kind |-> "Receiver", name |-> <<>>, ty |-> OpaquePtr]
            ELSE entry.inputs[i]]]

\* VtableItem::make_unsafe.
make_unsafe(entry) == [entry EXCEPT !.unsafety = TRUE]

\* VtableFnArg::into_bare_arg_with_ptr_receiver: the BareFnArg of an argument.
into_bare_arg_with_ptr_receiver(arg) ==
    IF arg.kind = "Receiver"
    THEN [name |-> <<>>, ty |-> OpaquePtr]
    ELSE [name |-> arg.name, ty |-> arg.ty]

(***************************************************************************)
(* src/repr.rs                                                             *)
(***************************************************************************)
\* Decimal rendering of a small number, as format_ident!("{}", n) does.
Digits == <<"0", "1", "2", "3", "4", "5", "6", "7", "8", "9">>

RECURSIVE DecimalString(_)
DecimalString(n) ==
    IF n < 10 THEN Digits[n + 1] ELSE DecimalString(n \div 10) \o Digits[(n % 10) + 1]

nth_arg(n) == "__thintraitobjectmacro_arg" \o DecimalString(n)

repr_name_from_trait_name(trait_name) ==
    "__ThinTraitObjectMacro_ReprFor" \o trait_name

\* The name is kept when the argument has one; only an unnamed argument gets
\* the positional name.
to_nth_thunk_arg(arg, n) ==
    LET bare == into_bare_arg_with_ptr_receiver(arg)
    IN  [bare EXCEPT !.name = IF bare.name = <<>> THEN <<nth_arg(n)>> ELSE bare.name]

\* VtableItem::into_signature(nth_arg): every input, the receiver included, is
\* named by its position, counted from 0.
into_signature(entry, ident) ==
    [ident |-> ident,
     unsafety |-> entry.unsafety,
     inputs |-> [i \in DOMAIN entry.inputs |->
                    [name |-> nth_arg(i - 1), ty |-> entry.inputs[i].ty]],
     output |-> entry.output]

\* entry.inputs.clone().into_iter().skip(1).map(|x| { ... }) with
\* argument_counter starting at `counter` (a u32: it cannot wrap, a method has
\* far fewer than 2^32 inputs).
RECURSIVE thunk_call_args(_, _)
thunk_call_args(args, counter) ==
    IF args = <<>> THEN <<>>
    ELSE <<to_nth_thunk_arg(Head(args), counter)>>
         \o thunk_call_args(Tail(args), counter + 1)

thunk_name_of(name) == "__thintraitobjectmacro_thunk_" \o name

\* Faulty variant: the thunk is put in front of the thunks emitted so far.
ThunkStep_prepend(repr_name, raw_entry, acc) ==
    LET entry == make_unsafe(make_raw(raw_entry))
        thunk_name == thunk_name_of(entry.name)
    IN  [vtable_contents |->
            Append(acc.vtable_contents,
                   [field |-> entry.name, self |-> "Self", item |-> thunk_name]),
         thunk_methods |->
            <<[signature |-> into_signature(entry, thunk_name),
               body |-> [ptr |-> "__thintraitobjectmacro_arg0",
                         cast_to |-> repr_name,
                         generic |-> Generic0,
                         field |-> "__thintraitobjectmacro_repr_value",
                         method |-> entry.name,
                         args |-> thunk_call_args(Tail(entry.inputs), 1)]]>>
            \o acc.thunk_methods]

\* One iteration of the loop of generate_vtable_and_thunks.
ThunkStep(repr_name, raw_entry, acc) ==
    LET entry == make_unsafe(make_raw(raw_entry))
        call_args == thunk_call_args(Tail(entry.inputs), 1)
        name == entry.name
        thunk_name == thunk_name_of(entry.name)
        thunk_signature == into_signature(entry, thunk_name)
    IN  [vtable_contents |->
            Append(acc.vtable_contents,
                   [field |-> name, self |-> "Self", item |-> thunk_name]),
         thunk_methods |->
            Append(acc.thunk_methods,
                   [signature |-> thunk_signature,
                    body |-> [ptr |-> "__thintraitobjectmacro_arg0",
                              cast_to |-> repr_name,
                              generic |-> Generic0,
                              field |-> "__thintraitobjectmacro_repr_value",
                              method |-> name,
                              args |-> call_args]])]

RECURSIVE ThunkLoop(_, _, _)
ThunkLoop(repr_name, entries, acc) ==
    IF entries = <<>> THEN acc
    ELSE ThunkLoop(repr_name, Tail(entries), ThunkStep(repr_name, Head(entries), acc))

generate_vtable_and_thunks(repr_name, vtable_entries) ==
    ThunkLoop(repr_name, vtable_entries,
              [vtable_contents |-> <<>>, thunk_methods |-> <<>>])

\* Faulty variant: the switch is ignored.
vtable_field_type_always_inline(inline, vtable_name) ==
    [kind |-> "path", of |-> vtable_name]

\* Type of the vtable field: the vtable type itself, or &'static to it.
vtable_field_type(inline, vtable_name) ==
    IF inline THEN [kind |-> "path", of |-> vtable_name]
    ELSE [kind |-> "ref_static", of |-> vtable_name]

\* The struct literal the constructor boxes.
ctor_val(inline) ==
    << [field |-> "__thintraitobjectmacro_repr_vtable",
        borrow |-> ~inline,
        expr |-> "__THINTRAITOBJECTMACRO_VTABLE"],
       [field |-> "__thintraitobjectmacro_repr_value",
        borrow |-> FALSE,
        expr |-> "__thintraitobjectmacro_arg0"] >>

\* Faulty variant: the payload field's type depends on the switch too.
repr_fields_payload_by_mode(inline, vtable_name) ==
    << [name |-> "__thintraitobjectmacro_repr_vtable",
        ty |-> vtable_field_type(inline, vtable_name)],
       [name |-> "__thintraitobjectmacro_repr_value",
        ty |-> [kind |-> IF inline THEN "path" ELSE "ref_static", of |-> Generic0]] >>

\* Faulty variant: the payload is declared before the dispatch table.
repr_fields_payload_first(inline, vtable_name) ==
    << [name |-> "__thintraitobjectmacro_repr_value",
        ty |-> [kind |-> "path", of |-> Generic0]],
       [name |-> "__thintraitobjectmacro_repr_vtable",
        ty |-> vtable_field_type(inline, vtable_name)] >>

\* The fields of the #[repr(C)] struct, in declaration order.
repr_fields(inline, vtable_name) ==
    << [name |-> "__thintraitobjectmacro_repr_vtable",
        ty |-> vtable_field_type(inline, vtable_name)],
       [name |-> "__thintraitobjectmacro_repr_value",
        ty |-> [kind |-> "path", of |-> Generic0]] >>

\* Faulty variant: the drop slot is emitted before the method slots.
vtable_initializer_drop_first(vtable_contents) ==
    <<[field |-> "drop", self |-> "Self",
       item |-> "__thintraitobjectmacro_repr_drop"]>> \o vtable_contents

\* The initializer of the associated const: the method slots, then drop.
vtable_initializer(vtable_contents) ==
    Append(vtable_contents,
           [field |-> "drop", self |-> "Self",
            item |-> "__thintraitobjectmacro_repr_drop"])

generate_repr(st, inline, box, abi) ==
    LET vt == generate_vtable_and_thunks(st.repr_name, st.vtable_items)
    IN  [struct |-> [layout |-> "C",
                     name |-> st.repr_name,
                     generic |-> Generic0,
                     bound |-> st.trait_name,
                     fields |-> repr_fields(inline, st.vtable_name)],
         vtable_const |-> [name |-> "__THINTRAITOBJECTMACRO_VTABLE",
                           ty |-> st.vtable_name,
                           init |-> vtable_initializer(vt.vtable_contents)],
         create |-> [name |-> "__thintraitobjectmacro_repr_create",
                     param |-> [name |-> "__thintraitobjectmacro_arg0",
                                ty |-> Generic0],
                     ret |-> [kind |-> "ptr_mut", of |-> st.vtable_name],
                     box |-> box,
                     val |-> ctor_val(inline)],
         drop |-> [name |-> "__thintraitobjectmacro_repr_drop",
                   unsafety |-> TRUE,
                   abi |-> abi,
                   param |-> [name |-> "__thintraitobjectmacro_arg0",
                              ty |-> OpaquePtr],
                   box |-> box,
                   cast_to |-> st.repr_name],
         thunks |-> vt.thunk_methods]

(***************************************************************************)
(* The generator as a state machine: the driver holds a StageStash and a   *)
(* configuration and calls generate_repr once; the emitted items then run. *)
(***************************************************************************)
StashOf(items) ==
    [trait_name |-> TraitName,
     vtable_name |-> VtableName,
     repr_name |-> repr_name_from_trait_name(TraitName),
     vtable_items |-> items]

\* Self::item with Self = repr_name<T>: the function a slot holds for payload T.
VtableInstance(r, T) ==
    [i \in DOMAIN r.vtable_const.init |->
        [field |-> r.vtable_const.init[i].field,
         ty |-> T,
         item |-> r.vtable_const.init[i].item]]

NoCall == [handle |-> 0, payload |-> "", method |-> "", args |-> <<>>]

InitRest ==
    /\ pc = "start"
    /\ repr = <<>>
    /\ statics = [T \in PayloadTypes |-> <<>>]
    /\ heap = <<>>
    /\ handles = <<>>
    /\ creates = 0
    /\ lastCall = NoCall

Init ==
    /\ stash \in { StashOf(items) : items \in Interfaces }
    /\ inline_vtable \in BOOLEAN
    /\ path_to_box \in BoxPaths
    /\ drop_abi \in Abis
    /\ InitRest

Generate ==
    /\ pc = "start"
    /\ pc' = "generated"
    /\ repr' = generate_repr(stash, inline_vtable, path_to_box, drop_abi)
    /\ statics' = [T \in PayloadTypes |-> VtableInstance(repr', T)]
    /\ UNCHANGED <<stash, inline_vtable, path_to_box, drop_abi,
                   heap, handles, creates, lastCall>>

(***************************************************************************)
(* The emitted items at run time.                                          *)
(***************************************************************************)
\* The emitted items are accepted by the compiler: no struct literal names a
\* field twice, and no thunk passes a BareFnArg (name: type) where the call
\* needs an expression.
Compiles(r) ==
    /\ IsInjective([i \in DOMAIN r.vtable_const.init |-> r.vtable_const.init[i].field])
    /\ \A i \in DOMAIN r.thunks : r.thunks[i].body.args = <<>>

\* The emitted items exist at run time only if they were generated and compiled.
Runnable == pc = "generated" /\ Compiles(repr)

\* Faulty variant: the table is copied even where the literal borrows it.
EvalField_always_copy(init, T, tables) ==
    IF init.expr = "__THINTRAITOBJECTMACRO_VTABLE"
    THEN [kind |-> "table", ty |-> T, slots |-> tables[T]]
    ELSE [kind |-> "payload", ty |-> T, slots |-> <<>>]

\* Value of one field initializer of the constructor's struct literal, for
\* payload type T: a copy of the static table, a reference to it, or the
\* payload moved in.
EvalField(init, T, tables) ==
    IF init.expr = "__THINTRAITOBJECTMACRO_VTABLE"
    THEN IF init.borrow
         THEN [kind |-> "ref", ty |-> T, slots |-> <<>>]
         ELSE [kind |-> "table", ty |-> T, slots |-> tables[T]]
    ELSE [kind |-> "payload", ty |-> T, slots |-> <<>>]

\* The boxed value: the struct literal's initializers, laid out in the
\* declaration order of the #[repr(C)] struct.
EvalCtorVal(r, T, tables) ==
    [j \in DOMAIN r.struct.fields |->
        EvalField(CHOOSE init \in { r.create.val[i] : i \in DOMAIN r.create.val } :
                      init.field = r.struct.fields[j].name,
                  T, tables)]

\* Faulty variant: the payload gets a box of its own before the value is boxed.
box_new_payload_boxed_apart(h, box, value) ==
    Append(Append(h, [via |-> box, fields |-> <<value[2]>>, live |-> TRUE,
                      freed |-> 0, torn |-> 0, freed_via |-> <<>>]),
           [via |-> box, fields |-> value, live |-> TRUE,
            freed |-> 0, torn |-> 0, freed_via |-> <<>>])

\* box::new: one allocation holding the whole value.
box_new(h, box, value) ==
    Append(h, [via |-> box, fields |-> value, live |-> TRUE,
               freed |-> 0, torn |-> 0, freed_via |-> <<>>])

\* Faulty variant: the allocation is released without dropping the payload.
box_drop_without_teardown(alloc, box) ==
    [alloc EXCEPT !.live = FALSE,
                  !.freed = @ + 1,
                  !.freed_via = <<box>>]

\* Dropping the box rebuilt by box::from_raw: the payload's teardown runs and
\* the allocation is released.
box_drop(alloc, box) ==
    [alloc EXCEPT !.live = FALSE,
                  !.freed = @ + 1,
                  !.torn = @ + 1,
                  !.freed_via = <<box>>]

\* __thintraitobjectmacro_repr_create(arg0: T) -> *mut vtable_name
ReprCreate(T) ==
    /\ Runnable
    /\ creates < MaxHandles
    /\ LET value == EvalCtorVal(repr, T, statics)
           h2 == box_new(heap, repr.create.box, value)
       IN  /\ heap' = h2
           /\ handles' = Append(handles,
                                [addr |-> Len(h2),
                                 pointee |-> repr.create.ret.of,
                                 state |-> "constructed"])
    /\ creates' = creates + 1
    /\ UNCHANGED <<genVars, lastCall>>

\* The dispatch table the caller reaches from a handle: the first field
\* itself, or what the first field refers to.
VtableOf(h) ==
    LET f == heap[h.addr].fields[1]
    IN  IF f.kind = "table" THEN f.slots ELSE statics[f.ty]

ThunkNamed(item) ==
    CHOOSE t \in { repr.thunks[i] : i \in DOMAIN repr.thunks } :
        t.signature.ident = item

ArgValue(i) == "v" \o DecimalString(i)

\* Value of the identifier `name` in a thunk whose parameters `inputs` are
\* bound to `actuals`.
Lookup(inputs, actuals, name) ==
    actuals[CHOOSE j \in DOMAIN inputs : inputs[j].name = name]

FieldIndex(name) ==
    CHOOSE j \in DOMAIN repr.struct.fields : repr.struct.fields[j].name = name

\* A call through method slot i of handle k's table.
CallThunk(k, i) ==
    /\ Runnable
    /\ k \in DOMAIN handles
    /\ handles[k].state = "constructed"
    /\ LET h == handles[k]
           table == VtableOf(h)
       IN  /\ i \in 1..(Len(table) - 1)
           /\ LET thunk == ThunkNamed(table[i].item)
                  sig == thunk.signature
                  actuals == [j \in DOMAIN sig.inputs |->
                                 IF j = 1 THEN "&" \o DecimalString(h.addr)
                                 ELSE ArgValue(j - 1)]
                  target == Lookup(sig.inputs, actuals, thunk.body.ptr)
                  payload == heap[h.addr].fields[FieldIndex(thunk.body.field)]
              IN  /\ target = "&" \o DecimalString(h.addr)
                  /\ lastCall' =
                        [handle |-> k,
                         payload |-> payload.ty,
                         method |-> thunk.body.method,
                         args |-> [a \in DOMAIN thunk.body.args |->
                                      Lookup(sig.inputs, actuals,
                                             thunk.body.args[a].name[1])]]
    /\ UNCHANGED <<genVars, heap, handles, creates>>

\* A call through the drop slot of handle k's table:
\* __thintraitobjectmacro_repr_drop(arg0).
ReprDrop(k) ==
    /\ Runnable
    /\ k \in DOMAIN handles
    /\ handles[k].state = "constructed"
    /\ LET h == handles[k]
           table == VtableOf(h)
       IN  /\ table[Len(table)].item = repr.drop.name
           /\ heap' = [heap EXCEPT ![h.addr] = box_drop(@, repr.drop.box)]
           /\ handles' = [handles EXCEPT ![k].state = "destroyed"]
    /\ UNCHANGED <<genVars, creates, lastCall>>

Next ==
    \/ Generate
    \/ \E T \in PayloadTypes : ReprCreate(T)
    \/ \E k \in 1..MaxHandles, i \in 1..MaxMethods : CallThunk(k, i)
    \/ \E k \in 1..MaxHandles : ReprDrop(k)

Spec == Init /\ [][Next]_vars

(***************************************************************************)
(* Properties.                                                             *)
(***************************************************************************)
Generated == pc = "generated"

NMethods == Len(stash.vtable_items)

SlotNames(r) == [i \in DOMAIN r.vtable_const.init |-> r.vtable_const.init[i].field]

DropSlots(r) ==
    { i \in DOMAIN r.vtable_const.init : r.vtable_const.init[i].item = r.drop.name }

\* C1: for an interface with n methods the dispatch-table initializer has
\* exactly n+1 slots: one per method, then exactly one destructor slot, which
\* is the last slot and is assigned the destructor thunk.
C1_TableIsMethodsThenDrop ==
    Generated =>
        LET init == repr.vtable_const.init
        IN  /\ Len(init) = NMethods + 1
            /\ init[NMethods + 1] =
                  [field |-> "drop", self |-> "Self", item |-> repr.drop.name]
            /\ DropSlots(repr) = {NMethods + 1}
            /\ \A i \in 1..NMethods : init[i].field = stash.vtable_items[i].name

C1_Witness == Generated /\ NMethods = MaxMethods

\* C2: slot order equals input method order: slot i is named after method i
\* and assigned the thunk generated for method i and for no other method, and
\* the thunk definitions are emitted in the same order.
C2_SlotOrderIsMethodOrder ==
    Generated =>
        /\ Len(repr.thunks) = NMethods
        /\ \A i \in 1..NMethods :
              LET slot == repr.vtable_const.init[i]
                  thunk == repr.thunks[i]
              IN  /\ slot.field = stash.vtable_items[i].name
                  /\ slot.item = thunk_name_of(stash.vtable_items[i].name)
                  /\ thunk.signature.ident = slot.item
                  /\ thunk.body.method = stash.vtable_items[i].name
                  /\ \A j \in 1..NMethods :
                        repr.thunks[j].signature.ident = slot.item => j = i

C2_Witness ==
    /\ Generated
    /\ NMethods = 2
    /\ repr.vtable_const.init[1].field = "prod"
    /\ repr.vtable_const.init[2].field = "poke"

\* C3: a method with k non-receiver parameters yields a thunk whose signature
\* has the receiver plus k parameters named by position 1..k, and whose body
\* passes exactly those k parameters, in order, to the method call on the
\* payload field, whether or not the original parameters had names.
C3_ThunkForwardsPositionalParams ==
    Generated =>
        \A i \in 1..NMethods :
            LET k == Len(stash.vtable_items[i].inputs) - 1
                thunk == repr.thunks[i]
            IN  /\ Len(thunk.signature.inputs) = k + 1
                /\ Len(thunk.body.args) = k
                /\ thunk.body.field = "__thintraitobjectmacro_repr_value"
                /\ \A j \in 1..k :
                      /\ thunk.signature.inputs[j + 1].name = nth_arg(j)
                      /\ thunk.signature.inputs[j + 1].ty =
                            stash.vtable_items[i].inputs[j + 1].ty
                      /\ thunk.body.args[j].name = <<nth_arg(j)>>

\* C6: the switch selects the first field's type exclusively and
\* exhaustively (the vtable type and a copy when embedded, a reference to the
\* static and a borrow when shared), and the struct has exactly the two
\* fields (dispatch table, payload) in that order.
C6_SwitchSelectsFirstFieldType ==
    Generated =>
        LET fields == repr.struct.fields
            val == repr.create.val
        IN  /\ Len(fields) = 2
            /\ fields[1].name = "__thintraitobjectmacro_repr_vtable"
            /\ fields[2] = [name |-> "__thintraitobjectmacro_repr_value",
                            ty |-> [kind |-> "path", of |-> repr.struct.generic]]
            /\ fields[1].ty.of = stash.vtable_name
            /\ (fields[1].ty.kind = "path") # (fields[1].ty.kind = "ref_static")
            /\ inline_vtable <=> fields[1].ty.kind = "path"
            /\ val[1].field = fields[1].name
            /\ val[1].expr = repr.vtable_const.name
            /\ val[1].borrow <=> ~inline_vtable

C6_Witness == Generated /\ ~inline_vtable /\ NMethods > 0

\* C7: for the same interface, allocation path and destructor convention,
\* the embedded and the shared output differ only in the first field's type
\* and in the copy-or-borrow initialisation of that field.
C7_ModesDifferOnlyInFirstField ==
    Generated =>
        LET other == generate_repr(stash, ~inline_vtable, path_to_box, drop_abi)
        IN  /\ repr.struct.fields[1].ty # other.struct.fields[1].ty
            /\ repr.struct.fields[1].name = other.struct.fields[1].name
            /\ Tail(repr.struct.fields) = Tail(other.struct.fields)
            /\ [repr.struct EXCEPT !.fields = <<>>] = [other.struct EXCEPT !.fields = <<>>]
            /\ repr.vtable_const = other.vtable_const
            /\ repr.drop = other.drop
            /\ repr.thunks = other.thunks
            /\ [repr.create EXCEPT !.val = <<>>] = [other.create EXCEPT !.val = <<>>]
            /\ Tail(repr.create.val) = Tail(other.create.val)
            /\ repr.create.val[1].borrow # other.create.val[1].borrow
            /\ [repr.create.val[1] EXCEPT !.borrow = FALSE]
                  = [other.create.val[1] EXCEPT !.borrow = FALSE]

C7_Witness ==
    /\ Generated
    /\ inline_vtable
    /\ NMethods = 2
    /\ Len(repr.thunks[1].body.args) > 0

\* C10: for an interface whose method names are pairwise distinct, the n+1
\* slot names of the dispatch-table initializer are pairwise distinct: the
\* destructor slot's name never coincides with a method slot's name.
C10_SlotNamesDistinct ==
    (Generated /\ IsInjective([i \in 1..NMethods |-> stash.vtable_items[i].name]))
        => IsInjective(SlotNames(repr))

Constructed(k) == k \in DOMAIN handles /\ handles[k].state = "constructed"

Destroyed(k) == k \in DOMAIN handles /\ handles[k].state = "destroyed"

HandleLifecycle ==
    \A k \in DOMAIN handles :
        LET a == heap[handles[k].addr]
        IN  /\ handles[k].state \in {"constructed", "destroyed"}
            /\ Constructed(k) => a.live /\ a.freed = 0 /\ a.torn = 0
            /\ Destroyed(k) =>
                  /\ ~a.live
                  /\ a.freed = 1
                  /\ a.torn = 1
                  /\ a.freed_via = <<a.via>>
                  /\ a.via = path_to_box

DestroyedOnlyByDestructor ==
    \A k \in DOMAIN handles :
        /\ k \in DOMAIN handles'
        /\ Destroyed(k) => handles'[k] = handles[k] /\ heap'[handles[k].addr] = heap[handles[k].addr]
        /\ handles'[k].state # handles[k].state =>
              /\ Constructed(k)
              /\ handles'[k].state = "destroyed"
              /\ heap'[handles[k].addr].freed = heap[handles[k].addr].freed + 1
              /\ heap'[handles[k].addr].torn = heap[handles[k].addr].torn + 1

\* C4: a handle is constructed or destroyed; the only transition is
\* constructed -> destroyed, taken by the destructor slot and irreversible;
\* the destructor reclaims the handle's single allocation exactly once,
\* through the configured allocation abstraction, and runs the payload's
\* teardown exactly once, never again after reclamation.
C4_DestructorReclaimsOnce == []HandleLifecycle /\ [][DestroyedOnlyByDestructor]_vars

C4_Witness == Len(handles) = 2 /\ Destroyed(1) /\ Constructed(2)

\* C5 as claimed: in both modes the type the handle is declared to point to
\* is the type of the struct's first field, so a read through the handle
\* yields the dispatch table stored there.
C5_HandlePointeeIsFirstFieldType ==
    \A k \in DOMAIN handles :
        Constructed(k) =>
            /\ repr.struct.fields[1].ty = [kind |-> "path", of |-> handles[k].pointee]
            /\ heap[handles[k].addr].fields[1].kind = "table"

\* C5 as amended: the handle points at the start of a live allocation made
\* by the constructor, whose first field is the dispatch-table field.  In
\* embedded mode that field has the handle's declared pointee type and holds
\* the table; in shared mode it is a reference to a value of the declared
\* pointee type, and the table is what that reference points to.
C5_HandleAliasesVtableField ==
    \A k \in DOMAIN handles :
        Constructed(k) =>
            LET h == handles[k]
                f == heap[h.addr].fields[1]
            IN  /\ heap[h.addr].live
                /\ repr.struct.layout = "C"
                /\ repr.struct.fields[1].name = "__thintraitobjectmacro_repr_vtable"
                /\ h.pointee = stash.vtable_name
                /\ repr.struct.fields[1].ty.of = h.pointee
                /\ inline_vtable =>
                      /\ repr.struct.fields[1].ty.kind = "path"
                      /\ f.kind = "table"
                      /\ f.slots = statics[f.ty]
                /\ ~inline_vtable =>
                      /\ repr.struct.fields[1].ty.kind = "ref_static"
                      /\ f.kind = "ref"
                /\ VtableOf(h) = statics[heap[h.addr].fields[2].ty]

C5_Witness == ~inline_vtable /\ Constructed(1) /\ NMethods > 0

\* C8: every constructor invocation performs exactly one allocation through
\* the configured boxed-allocation abstraction; that allocation holds both the
\* dispatch-table field and the payload field and is owned by the returned
\* handle (the constructor does not reclaim it); the number of allocations
\* made equals the number of constructor calls.
C8_OneAllocationPerCreate ==
    /\ Len(heap) = creates
    /\ Len(handles) = creates
    /\ \A k \in DOMAIN handles :
          /\ handles[k].addr = k
          /\ heap[k].via = path_to_box
          /\ Len(heap[k].fields) = 2
          /\ { heap[k].fields[j].kind : j \in 1..2 } \in
                { {"table", "payload"}, {"ref", "payload"} }
          /\ heap[k].freed > 0 => Destroyed(k)

C8_Witness == creates = 2 /\ Destroyed(1) /\ Destroyed(2)

\* C9: there is one static dispatch table per payload type and it is never
\* mutated: after any sequence of constructor, thunk and destructor calls its
\* slots equal their initial values; in shared mode every live instance
\* refers to the table of its payload type, in embedded mode every live
\* instance holds a copy of it.
C9_StaticTableImmutable ==
    Generated =>
        /\ DOMAIN statics = PayloadTypes
        /\ \A T \in PayloadTypes : statics[T] = VtableInstance(repr, T)
        /\ \A T, U \in PayloadTypes : statics[T] = statics[U] => T = U
        /\ \A k \in DOMAIN handles :
              Constructed(k) =>
                  LET f == heap[handles[k].addr].fields[1]
                      T == heap[handles[k].addr].fields[2].ty
                  IN  /\ inline_vtable => f.kind = "table" /\ f.slots = statics[T]
                      /\ ~inline_vtable => f.kind = "ref" /\ f.ty = T

C9_Witness ==
    /\ ~inline_vtable
    /\ Constructed(1)
    /\ Destroyed(2)
    /\ lastCall.handle = 1
    /\ heap[1].fields[2].ty = heap[2].fields[2].ty

====
